---- MODULE Spec2Model ----
(***************************************************************************)
(* Patent knowledge-graph pipeline: chunker, structured-output parser,     *)
(* summarization orchestrator and knowledge-store merge.                   *)
(*                                                                         *)
(* The repository holds the pipeline in an enhanced version                *)
(* (extraction_functions.py, db_utils.py) and in two earlier versions      *)
(* (knowledge_utils.py, app.py).  Every version is modelled; operators     *)
(* carry the suffix of the file they come from where the code differs.     *)
(*                                                                         *)
(* Texts are sequences of characters (one-character strings, or lexical    *)
(* tokens for the parser); node and document ids are strings.              *)
(***************************************************************************)
EXTENDS Integers, Sequences, FiniteSets, TLC

VARIABLES
    db,        \* the knowledge store: [documents, graph: [nodes, edges]]
    merged,    \* log of the update_knowledge_db calls made so far: [impl, metadata]
    text,      \* chunker input: the text
    chunk_size,\* chunker input
    overlap,   \* chunker input
    chunks,    \* chunker output (<<>> while split_done = "none")
    split_done,\* which split_text_with_overlap ran ("none" before the call)
    raw,       \* parser input: the raw model output
    parsed,    \* parser output
    parse_pc,  \* "start" before _extract_json_from_string ran, else the version that ran
    st_errors, \* parser: number of st.error events reported
    orch       \* one run of the orchestrator, see InitOrch

vars == <<db, merged, text, chunk_size, overlap, chunks, split_done,
          raw, parsed, parse_pc, st_errors, orch>>

----------------------------------------------------------------------------
(* Bounds of the model *)

\* documents merged into one store
MaxDocs == 2
\* edges in one store (item occurrences over all merged documents)
MaxEdges == 3
\* length of the text handed to the chunker
MaxLen == 6
\* largest chunk_size handed to the chunker
MaxChunk == 4
\* length, in tokens, of the raw model output handed to the parser
MaxTok == 5

----------------------------------------------------------------------------
(* Generic helpers *)

\* dict.get(key, default)
Get(m, k, d) == IF k \in DOMAIN m THEN m[k] ELSE d

\* a dict with no keys ({} in Python)
EmptyDict == [k \in {} |-> ""]

\* the elements of a sequence
Range(s) == {s[i] : i \in DOMAIN s}

\* number of positions of s holding x
Count(s, x) == Cardinality({i \in DOMAIN s : s[i] = x})

\* sequences over S of length at most n
SeqsUpTo(S, n) == UNION {[1..k -> S] : k \in 0..n}

\* sequences without repetition (the key order of a dict)
Distinct(s) == \A i, j \in DOMAIN s : i # j => s[i] # s[j]

----------------------------------------------------------------------------
(* Knowledge store merge: update_knowledge_db *)

\* f"doc_{len(db['documents'])+1}"
DocId(db0) == "doc_" \o ToString(Len(db0.documents) + 1)

\* [n["id"] for n in db["graph"]["nodes"]]
NodeIds(nodes) == {nodes[i].id : i \in DOMAIN nodes}

\* the mutant of EnsureNode that appends without the existence check
EnsureNodeUnchecked(nodes, id, group) ==
    Append(nodes, [id |-> id, label |-> id, group |-> group])

\* the mutant of EnsureNode that replaces the group of an existing node
EnsureNodeRegroup(nodes, id, group) ==
    IF id \in NodeIds(nodes)
    THEN [i \in DOMAIN nodes |->
            IF nodes[i].id = id THEN [nodes[i] EXCEPT !.group = group] ELSE nodes[i]]
    ELSE Append(nodes, [id |-> id, label |-> id, group |-> group])

\* the mutant of EnsureNode whose membership test is inverted
EnsureNodeInverted(nodes, id, group) ==
    IF id \notin NodeIds(nodes)
    THEN nodes
    ELSE Append(nodes, [id |-> id, label |-> id, group |-> group])

\* if x not in [n["id"] ...]: nodes.append({"id": x, "label": x, "group": group})
EnsureNode(nodes, id, group) ==
    IF id \in NodeIds(nodes)
    THEN nodes
    ELSE Append(nodes, [id |-> id, label |-> id, group |-> group])

\* the mutant of AddEdge that skips an edge already present
AddEdgeDedup(edges, source, target, label) ==
    IF [source |-> source, target |-> target, label |-> label] \in Range(edges)
    THEN edges
    ELSE Append(edges, [source |-> source, target |-> target, label |-> label])

\* edges.append({"source": source, "target": target, "label": label})
AddEdge(edges, source, target, label) ==
    Append(edges, [source |-> source, target |-> target, label |-> label])

\* for item in items: (node if absent); edge    -- one loop of db_utils / knowledge_utils
RECURSIVE LinkItems(_, _, _, _, _)
LinkItems(graph, source, items, group, label) ==
    IF items = <<>>
    THEN graph
    ELSE LinkItems([nodes |-> EnsureNode(graph.nodes, Head(items), group),
                    edges |-> AddEdge(graph.edges, source, Head(items), label)],
                   source, Tail(items), group, label)

\* for kw in keywords: node if absent          -- first loop of app.py
RECURSIVE NodesOnly(_, _, _)
NodesOnly(nodes, items, group) ==
    IF items = <<>>
    THEN nodes
    ELSE NodesOnly(EnsureNode(nodes, Head(items), group), Tail(items), group)

\* for kw in keywords: edge                    -- last loop of app.py
RECURSIVE EdgesOnly(_, _, _, _)
EdgesOnly(edges, source, items, label) ==
    IF items = <<>>
    THEN edges
    ELSE EdgesOnly(AddEdge(edges, source, Head(items), label), source, Tail(items), label)

\* the mutant of Title_db_utils that always synthesizes the sequential id
TitleAlwaysSequential(db0, metadata) == DocId(db0)

\* title = metadata.get("title", ""); if not title: title = doc_<n+1>
Title_db_utils(db0, metadata) ==
    IF Get(metadata, "title", "") # ""
    THEN Get(metadata, "title", "")
    ELSE DocId(db0)

\* doc_entry of db_utils
DocEntry_db_utils(title, metadata, original_text) ==
    [id |-> title,
     title |-> title,
     technical_field |-> Get(metadata, "technical_field", ""),
     background_art |-> Get(metadata, "background_art", ""),
     prior_art_documents |-> Get(metadata, "prior_art_documents", <<>>),
     problems_to_be_solved |-> Get(metadata, "problems_to_be_solved", ""),
     means_for_solving |-> Get(metadata, "means_for_solving", ""),
     effects |-> Get(metadata, "effects", ""),
     brief_description_of_drawings |-> Get(metadata, "brief_description_of_drawings", ""),
     embodiments |-> Get(metadata, "embodiments", ""),
     claims |-> Get(metadata, "claims", <<>>),
     additional_info |-> Get(metadata, "additional_info", EmptyDict),
     terminologies |-> Get(metadata, "terminologies", <<>>),
     fulltext |-> original_text]

\* metadata.get("additional_info", {}).get("inventors", [])
Inventors(metadata) == Get(Get(metadata, "additional_info", EmptyDict), "inventors", <<>>)

\* metadata.get("prior_art_documents", []) + metadata.get("claims", [])
Keywords_db_utils(metadata) ==
    Get(metadata, "prior_art_documents", <<>>) \o Get(metadata, "claims", <<>>)

\* metadata.get("terminologies", {}).keys(): the keys in insertion order
TermKeys(metadata) == Get(metadata, "terminologies", <<>>)

\* update_knowledge_db of db_utils.py
Update_db_utils(db0, metadata, original_text) ==
    LET title == Title_db_utils(db0, metadata)
        g0 == [nodes |-> EnsureNode(db0.graph.nodes, title, "document"),
               edges |-> db0.graph.edges]
        g1 == LinkItems(g0, title, Inventors(metadata), "inventor", "HAS_INVENTOR")
        g2 == LinkItems(g1, title, Keywords_db_utils(metadata), "keyword", "HAS_KEYWORD")
        g3 == LinkItems(g2, title, TermKeys(metadata), "terminology", "HAS_TERMINOLOGY")
    IN  [documents |-> Append(db0.documents,
                              DocEntry_db_utils(title, metadata, original_text)),
         graph |-> g3]

\* doc_entry of knowledge_utils.py and app.py
DocEntry_legacy(doc_id, metadata, original_text) ==
    [id |-> doc_id,
     summary |-> Get(metadata, "summary", ""),
     keywords |-> Get(metadata, "keywords", <<>>),
     entities |-> Get(metadata, "entities", EmptyDict),
     fulltext |-> original_text]

\* update_knowledge_db of knowledge_utils.py
Update_knowledge_utils(db0, metadata, original_text) ==
    LET doc_id == DocId(db0)
        g0 == [nodes |-> EnsureNode(db0.graph.nodes, doc_id, "document"),
               edges |-> db0.graph.edges]
        g1 == LinkItems(g0, doc_id, Get(metadata, "keywords", <<>>), "keyword", "has_keyword")
    IN  [documents |-> Append(db0.documents,
                              DocEntry_legacy(doc_id, metadata, original_text)),
         graph |-> g1]

\* update_knowledge_db of app.py: keyword nodes, then the document node, then the edges
Update_app(db0, metadata, original_text) ==
    LET doc_id == DocId(db0)
        keywords == Get(metadata, "keywords", <<>>)
        n1 == NodesOnly(db0.graph.nodes, keywords, "keyword")
        n2 == EnsureNode(n1, doc_id, "document")
    IN  [documents |-> Append(db0.documents,
                              DocEntry_legacy(doc_id, metadata, original_text)),
         graph |-> [nodes |-> n2,
                    edges |-> EdgesOnly(db0.graph.edges, doc_id, keywords, "has_keyword")]]

\* load_knowledge_db with no file on disk
EmptyDb == [documents |-> <<>>, graph |-> [nodes |-> <<>>, edges |-> <<>>]]

(* Inputs of the merge *)

\* item values; "doc_2" is also the id the second document gets by default
Names == {"gear", "doc_2"}

\* titles the extraction may return
Titles == {"", "gear"}

\* the text handed to update_knowledge_db (stored, never read)
SomeText == <<"a">>

\* the record _empty_metadata() builds, with the given fields filled in
EnhancedMetadata(title, inventors, prior, claims, terms) ==
    [title |-> title,
     technical_field |-> "",
     background_art |-> "",
     prior_art_documents |-> prior,
     problems_to_be_solved |-> "",
     means_for_solving |-> "",
     effects |-> "",
     brief_description_of_drawings |-> "",
     embodiments |-> "",
     claims |-> claims,
     additional_info |-> [filing_date |-> "", publication_date |-> "",
                          registration_date |-> "", inventors |-> inventors,
                          applicants |-> <<>>, agents |-> <<>>, priority_info |-> ""],
     terminologies |-> terms]

\* {"summary": ..., "keywords": [...], "entities": {}}
LegacyMetadata(keywords) ==
    [summary |-> "", keywords |-> keywords, entities |-> EmptyDict]

\* the metadata records of the earlier schema with at most n keywords
LegacyInputs(n) == {EmptyDict} \cup {LegacyMetadata(k) : k \in SeqsUpTo(Names, n)}

\* room left in the bounded store
Room == MaxEdges - Len(db.graph.edges)

UNCHANGED_split == UNCHANGED <<text, chunk_size, overlap, chunks, split_done>>
UNCHANGED_parse == UNCHANGED <<raw, parsed, parse_pc, st_errors>>

\* one store is written by one version of the program
WrittenBy(impl) == \A i \in DOMAIN merged : merged[i].impl = impl

\* the dict keys in insertion order, at most n of them
KeySeqs(n) == {s \in SeqsUpTo(Names, n) : Distinct(s)}

MergeDbUtils ==
    /\ WrittenBy("db_utils")
    /\ Len(db.documents) < MaxDocs
    /\ \E t \in Titles, i \in SeqsUpTo(Names, Room) :
       \E p \in SeqsUpTo(Names, Room - Len(i)) :
       \E c \in SeqsUpTo(Names, Room - Len(i) - Len(p)) :
       \E k \in KeySeqs(Room - Len(i) - Len(p) - Len(c)) :
       \E metadata \in {EnhancedMetadata(t, i, p, c, k), EmptyDict} :
          /\ db' = Update_db_utils(db, metadata, SomeText)
          /\ merged' = Append(merged, [impl |-> "db_utils", metadata |-> metadata])
    /\ UNCHANGED_split /\ UNCHANGED_parse /\ UNCHANGED orch

MergeKnowledgeUtils ==
    /\ WrittenBy("knowledge_utils")
    /\ Len(db.documents) < MaxDocs
    /\ \E metadata \in LegacyInputs(Room) :
          /\ db' = Update_knowledge_utils(db, metadata, SomeText)
          /\ merged' = Append(merged, [impl |-> "knowledge_utils", metadata |-> metadata])
    /\ UNCHANGED_split /\ UNCHANGED_parse /\ UNCHANGED orch

MergeApp ==
    /\ WrittenBy("app")
    /\ Len(db.documents) < MaxDocs
    /\ \E metadata \in LegacyInputs(Room) :
          /\ db' = Update_app(db, metadata, SomeText)
          /\ merged' = Append(merged, [impl |-> "app", metadata |-> metadata])
    /\ UNCHANGED_split /\ UNCHANGED_parse /\ UNCHANGED orch

\* values of the variables a specification does not use
IdleSplit ==
    /\ text = <<>> /\ chunk_size = 1 /\ overlap = 0 /\ chunks = <<>> /\ split_done = "none"
IdleParse == raw = <<>> /\ parsed = EmptyDict /\ parse_pc = "start" /\ st_errors = 0
IdleOrch == orch = EmptyDict
IdleMerge == db = EmptyDb /\ merged = <<>>

InitMerge == IdleMerge /\ IdleSplit /\ IdleParse /\ IdleOrch
NextMerge == MergeDbUtils \/ MergeKnowledgeUtils \/ MergeApp
SpecMerge == InitMerge /\ [][NextMerge]_vars

----------------------------------------------------------------------------
(* Claims about the knowledge store merge, checked under SpecMerge *)

Nodes == db.graph.nodes
Edges == db.graph.edges

\* the title the i-th merge was given ("" when the metadata has none)
GivenTitle(i) == Get(merged[i].metadata, "title", "")

\* occurrences of item t in the category of metadata that label l names
Occurrences(metadata, t, l) ==
    CASE l = "HAS_INVENTOR" -> Count(Inventors(metadata), t)
      [] l = "HAS_KEYWORD" -> Count(Get(metadata, "prior_art_documents", <<>>), t)
                                + Count(Get(metadata, "claims", <<>>), t)
      [] l = "HAS_TERMINOLOGY" -> Count(TermKeys(metadata), t)
      [] l = "has_keyword" -> Count(Get(metadata, "keywords", <<>>), t)
      [] OTHER -> 0

Labels == {"HAS_INVENTOR", "HAS_KEYWORD", "HAS_TERMINOLOGY", "has_keyword"}

\* occurrences of t under label l in the first n merges whose document got id s
RECURSIVE OccurrencesFrom(_, _, _, _)
OccurrencesFrom(n, s, t, l) ==
    IF n = 0
    THEN 0
    ELSE OccurrencesFrom(n - 1, s, t, l)
           + (IF db.documents[n].id = s THEN Occurrences(merged[n].metadata, t, l) ELSE 0)

\* C1: in every store reached from the empty store by update_knowledge_db
\* merges, no two nodes of graph.nodes share an id, whatever their groups.
C1_NodeIdsUnique ==
    \A i, j \in DOMAIN Nodes : i # j => Nodes[i].id # Nodes[j].id

\* C1 witness: two documents are merged, one item is referenced under two
\* different categories, and a document id is also referenced as an item.
C1_Witness ==
    /\ Len(db.documents) = 2
    /\ \E i, j \in DOMAIN Edges :
          Edges[i].target = Edges[j].target /\ Edges[i].label # Edges[j].label
    /\ \E i \in DOMAIN Edges, d \in DOMAIN db.documents :
          Edges[i].target = db.documents[d].id

\* C6 (as claimed): after every merge the store holds a node whose id is the
\* new document's id and whose group is "document".
C6_DocumentNodeExists ==
    merged # <<>> =>
        \E n \in DOMAIN Nodes :
            /\ Nodes[n].id = db.documents[Len(db.documents)].id
            /\ Nodes[n].group = "document"

\* C8: the i-th merged document has the given title as id when the title is
\* non-empty, and otherwise doc_<i> (i - 1 documents were stored before it).
C8_IdAssigned ==
    /\ Len(db.documents) = Len(merged)
    /\ \A i \in DOMAIN merged :
          db.documents[i].id =
              IF GivenTitle(i) # "" THEN GivenTitle(i) ELSE "doc_" \o ToString(i)

\* C8 witness: two merges without a title into the empty store got doc_1, doc_2.
C8_Witness ==
    /\ Len(merged) = 2
    /\ GivenTitle(1) = "" /\ GivenTitle(2) = ""
    /\ db.documents[1].id = "doc_1" /\ db.documents[2].id = "doc_2"

\* C8 witness for the title case: a db_utils merge with a title, after an
\* untitled one, took the title as id.
C8_WitnessTitle ==
    /\ Len(merged) = 2
    /\ GivenTitle(1) = "" /\ GivenTitle(2) = "gear"
    /\ db.documents[2].id = "gear"

\* C9: the store holds exactly one edge per occurrence of a referenced item:
\* for every source id, item and label, the edges (source, item, label) are as
\* many as the occurrences of the item, in the category of that label, in the
\* documents merged under that id; no edge is dropped as a duplicate.
C9_EdgePerOccurrence ==
    /\ \A e \in Range(Edges) :
          e.source \in {db.documents[d].id : d \in DOMAIN db.documents}
    /\ \A d \in DOMAIN db.documents, t \in Names, l \in Labels :
          Count(Edges, [source |-> db.documents[d].id, target |-> t, label |-> l])
              = OccurrencesFrom(Len(merged), db.documents[d].id, t, l)

\* C9 witness: two documents each reference "gear" once, the second when the
\* node "gear" already existed, and exactly two edges have target "gear".
C9_Witness ==
    /\ Len(merged) = 2
    /\ \A i \in 1..2 :
          Occurrences(merged[i].metadata, "gear", "HAS_KEYWORD")
            + Occurrences(merged[i].metadata, "gear", "has_keyword") = 1
    /\ Cardinality({i \in DOMAIN Edges : Edges[i].target = "gear"}) = 2
    /\ Cardinality({n \in DOMAIN Nodes : Nodes[n].id = "gear"}) = 1

\* s is an initial segment of t
IsPrefix(s, t) == Len(s) <= Len(t) /\ SubSeq(t, 1, Len(s)) = s

\* C11: every merge only appends: it adds exactly one document, and the
\* documents, nodes and edges held before it are all still there, in the same
\* order and with every field unchanged (a node keeps its first writer's
\* group); nothing is removed or rewritten.
C11_AppendOnly ==
    [][/\ Len(db'.documents) = Len(db.documents) + 1
       /\ IsPrefix(db.documents, db'.documents)
       /\ IsPrefix(db.graph.nodes, db'.graph.nodes)
       /\ IsPrefix(db.graph.edges, db'.graph.edges)]_vars

\* C11 witness: the second document took as its id the id of a node the
\* first document had written as an item, and the node kept that group.
C11_Witness ==
    /\ Len(merged) = 2
    /\ \E i \in DOMAIN Edges, n \in DOMAIN Nodes :
          /\ Edges[i].source = db.documents[1].id
          /\ Edges[i].target = db.documents[2].id
          /\ Nodes[n].id = db.documents[2].id
          /\ Nodes[n].group # "document"
    /\ db.documents[1].id # db.documents[2].id

\* visualize_knowledge_graph: the calls it makes on the network, in order:
\* net.add_node for every node of the store, then net.add_edge for every edge
VisualizeCalls(db0) ==
    [i \in DOMAIN db0.graph.nodes |->
        [call |-> "add_node", ids |-> {db0.graph.nodes[i].id}]]
    \o
    [i \in DOMAIN db0.graph.edges |->
        [call |-> "add_edge",
         ids |-> {db0.graph.edges[i].source, db0.graph.edges[i].target}]]

\* the ids given to net.add_node before call k of calls
AddedBefore(calls, k) ==
    UNION {calls[j].ids : j \in {i \in 1..(k - 1) : calls[i].call = "add_node"}}

\* C13: in every store reached from the empty store by merges, every edge's
\* source and every edge's target is the id of some node (no dangling edge),
\* so each net.add_edge of visualize_knowledge_graph names only ids already
\* given to net.add_node.
C13_NoDanglingEdge ==
    /\ \A i \in DOMAIN Edges :
          /\ Edges[i].source \in NodeIds(Nodes)
          /\ Edges[i].target \in NodeIds(Nodes)
    /\ LET calls == VisualizeCalls(db)
       IN  \A k \in DOMAIN calls :
              calls[k].call = "add_edge" => calls[k].ids \subseteq AddedBefore(calls, k)

\* C13 witness: a document whose id was already the id of an item node has
\* edges; its source resolves to that item node, no document node was added.
C13_Witness ==
    /\ Len(Edges) >= 2
    /\ \E i \in DOMAIN Edges, n \in DOMAIN Nodes, d \in DOMAIN db.documents :
          /\ Edges[i].source = db.documents[d].id
          /\ Nodes[n].id = Edges[i].source
          /\ Nodes[n].group # "document"

----------------------------------------------------------------------------
(* Chunker: split_text_with_overlap *)

Min(a, b) == IF a <= b THEN a ELSE b
Max(a, b) == IF a >= b THEN a ELSE b

\* text[start:end] for 0 <= start, as Python slices: the end is clipped to len(text)
Slice(s, start, end) == SubSeq(s, start + 1, Min(end, Len(s)))

\* the mutant of Stride that forgets the overlap
StrideNoOverlap(size, ov) == size

\* start += (chunk_size - overlap)
Stride(size, ov) == size - ov

\* the loop of extraction_functions.split_text_with_overlap from offset start
RECURSIVE SplitFrom_extraction(_, _, _, _)
SplitFrom_extraction(s, size, ov, start) ==
    IF start < Len(s)
    THEN <<Slice(s, start, start + size)>>
           \o SplitFrom_extraction(s, size, ov, start + Stride(size, ov))
    ELSE <<>>

\* split_text_with_overlap of extraction_functions.py
Split_extraction(s, size, ov) == SplitFrom_extraction(s, size, ov, 0)

\* the loop of knowledge_utils.split_text_with_overlap from offset start,
\* with its break once the next start is past the text
RECURSIVE SplitFrom_knowledge(_, _, _, _)
SplitFrom_knowledge(s, size, ov, start) ==
    IF start < Len(s)
    THEN <<Slice(s, start, start + size)>>
           \o (IF start + Stride(size, ov) >= Len(s)
               THEN <<>>
               ELSE SplitFrom_knowledge(s, size, ov, start + Stride(size, ov)))
    ELSE <<>>

\* split_text_with_overlap of knowledge_utils.py
Split_knowledge(s, size, ov) == SplitFrom_knowledge(s, size, ov, 0)

\* characters of the texts
Chars == {"a", "b"}

UNCHANGED_merge == UNCHANGED <<db, merged>>

SplitExtraction ==
    /\ split_done = "none"
    /\ chunks' = Split_extraction(text, chunk_size, overlap)
    /\ split_done' = "extraction_functions"
    /\ UNCHANGED <<text, chunk_size, overlap>>
    /\ UNCHANGED_merge /\ UNCHANGED_parse /\ UNCHANGED orch

SplitKnowledge ==
    /\ split_done = "none"
    /\ chunks' = Split_knowledge(text, chunk_size, overlap)
    /\ split_done' = "knowledge_utils"
    /\ UNCHANGED <<text, chunk_size, overlap>>
    /\ UNCHANGED_merge /\ UNCHANGED_parse /\ UNCHANGED orch

\* any text and any parameters with 0 <= overlap < chunk_size
InitSplit ==
    /\ text \in SeqsUpTo(Chars, MaxLen)
    /\ chunk_size \in 1..MaxChunk
    /\ overlap \in 0..(chunk_size - 1)
    /\ chunks = <<>>
    /\ split_done = "none"
    /\ IdleMerge /\ IdleParse /\ IdleOrch
NextSplit == SplitExtraction \/ SplitKnowledge
SpecSplit == InitSplit /\ [][NextSplit]_vars

(* Claims about the chunker, checked under SpecSplit *)

\* ceil(a / b) for a >= 0, b > 0
CeilDiv(a, b) == (a + b - 1) \div b

\* C3 (as claimed): the chunk count is 1 whenever n <= chunk_size, and
\* otherwise ceil(max(0, n - overlap) / stride).  (For n <= chunk_size the
\* quotient is read as overridden by the 1: it is 0 when n <= overlap.)
C3_ChunkCount ==
    split_done # "none" =>
        Len(chunks) =
            IF Len(text) <= chunk_size
            THEN 1
            ELSE CeilDiv(Max(0, Len(text) - overlap), chunk_size - overlap)

\* chunks[1] followed by every later chunk without its first ov characters
RECURSIVE Rejoin(_, _)
Rejoin(cs, ov) ==
    IF cs = <<>>
    THEN <<>>
    ELSE IF Len(cs) = 1
         THEN cs[1]
         ELSE LET last == cs[Len(cs)]
              IN  Rejoin(SubSeq(cs, 1, Len(cs) - 1), ov)
                    \o SubSeq(last, Min(ov, Len(last)) + 1, Len(last))

\* C10: for a non-empty text, chunk i is text[i*stride : min(n, i*stride +
\* chunk_size)] (i from 0): the first chunk starts at 0, the last ends at n,
\* no chunk is empty, and the chunks with each overlap taken once give the text.
C10_ChunkSpans ==
    (split_done # "none" /\ Len(text) > 0) =>
        LET n == Len(text)
            stride == chunk_size - overlap
            k == Len(chunks)
        IN  /\ k >= 1
            /\ \A i \in 1..k :
                  /\ chunks[i] = SubSeq(text, (i - 1) * stride + 1,
                                        Min(n, (i - 1) * stride + chunk_size))
                  /\ chunks[i] # <<>>
            /\ (k - 1) * stride + Len(chunks[k]) = n
            /\ Rejoin(chunks, overlap) = text

\* C10 witness: a split into three or more overlapping chunks whose last
\* chunk is cut short by the end of the text.
C10_Witness ==
    /\ split_done # "none"
    /\ Len(chunks) >= 3
    /\ overlap > 0
    /\ Len(chunks[Len(chunks)]) < chunk_size
    /\ \E i, j \in DOMAIN text : text[i] # text[j]

----------------------------------------------------------------------------
(* Structured output parser: _extract_json_from_string *)

(* The raw model output is a sequence of lexical tokens; the text it stands  *)
(* for is their concatenation.  The tokens are chosen so that every token    *)
(* sequence is one definite text and the regular expression and json.loads   *)
(* can be decided on it exactly.                                             *)
\* the seven characters that open a fenced JSON block: three backquotes, json
FenceJson == "FENCE_JSON"
\* three backquotes
Fence == "FENCE"
\* a space
Blank == " "
LBrace == "{"
RBrace == "}"
\* an object member with a string value: the key summary in double quotes,
\* a colon, the value A in double quotes
Member == "SUMMARY_A"
\* a double quote
Quote == "QUOTE"
\* a letter of prose
Prose == "x"

Tokens == {FenceJson, Fence, Blank, LBrace, RBrace, Member, Quote, Prose}

\* the characters a JSON string literal may hold unescaped: no quote
StringChars == Tokens \ {Quote, Member}

\* str.strip(): without the leading and trailing whitespace
RECURSIVE Strip(_)
Strip(s) ==
    IF s = <<>> THEN s
    ELSE IF Head(s) = Blank THEN Strip(Tail(s))
    ELSE IF s[Len(s)] = Blank THEN Strip(SubSeq(s, 1, Len(s) - 1))
    ELSE s

\* a JSON value as Python holds it: its type and its content
PyDict(d) == [type |-> "dict", value |-> d]
PyStr(s) == [type |-> "str", value |-> s]

\* json.loads(s): [ok |-> TRUE, value |-> v], or [ok |-> FALSE] when it raises.
\* Leading and trailing whitespace is skipped; the documents these tokens can
\* spell are a string literal, the empty object and the object of one Member.
JsonLoads(s) ==
    LET t == Strip(s)
        n == Len(t)
        inner == SubSeq(t, 2, n - 1)
    IN  IF n >= 2 /\ t[1] = Quote /\ t[n] = Quote /\ Range(inner) \subseteq StringChars
        THEN [ok |-> TRUE, value |-> PyStr(inner)]
        ELSE IF n >= 2 /\ t[1] = LBrace /\ t[n] = RBrace /\ Strip(inner) = <<>>
        THEN [ok |-> TRUE, value |-> PyDict(EmptyDict)]
        ELSE IF n >= 2 /\ t[1] = LBrace /\ t[n] = RBrace /\ Strip(inner) = <<Member>>
        THEN [ok |-> TRUE, value |-> PyDict([summary |-> <<"A">>])]
        ELSE [ok |-> FALSE]

\* position of the first FenceJson in s, 0 when there is none
FenceOpen(s) ==
    IF \E i \in DOMAIN s : s[i] = FenceJson
    THEN CHOOSE i \in DOMAIN s :
            s[i] = FenceJson /\ \A j \in 1..(i - 1) : s[j] # FenceJson
    ELSE 0

\* position of the first three backquotes after position o, 0 when there are
\* none; the three backquotes that open a later FenceJson close the block too
FenceClose(s, o) ==
    IF \E i \in (o + 1)..Len(s) : s[i] \in {Fence, FenceJson}
    THEN CHOOSE i \in (o + 1)..Len(s) :
            s[i] \in {Fence, FenceJson}
              /\ \A j \in (o + 1)..(i - 1) : s[j] \notin {Fence, FenceJson}
    ELSE 0

\* re.search(pattern, text, flags=re.DOTALL) for the fenced-block pattern:
\* [found |-> TRUE, group |-> match.group(1).strip()] or [found |-> FALSE]
SearchFence(s) ==
    LET o == FenceOpen(s)
        c == IF o = 0 THEN 0 ELSE FenceClose(s, o)
    IN  IF o = 0 \/ c = 0
        THEN [found |-> FALSE]
        ELSE [found |-> TRUE, group |-> Strip(SubSeq(s, o + 1, c - 1))]

\* _empty_metadata() of extraction_functions.py
EmptyMetadata_extraction == PyDict(EnhancedMetadata("", <<>>, <<>>, <<>>, <<>>))

\* {"summary": "", "keywords": [], "entities": {}} of knowledge_utils.py
EmptyMetadata_knowledge == PyDict([summary |-> <<>>, keywords |-> <<>>, entities |-> EmptyDict])

\* the mutant of ExtractJson that skips the fenced block
ExtractJsonWholeOnly(s, default) ==
    LET whole == JsonLoads(s)
    IN  IF whole.ok
        THEN [result |-> whole.value, errors |-> 0, source |-> "whole"]
        ELSE [result |-> default, errors |-> 1, source |-> "default"]

\* _extract_json_from_string: the value returned, the st.error calls made and
\* the attempt that produced the value
ExtractJson(s, default) ==
    LET m == SearchFence(s)
        block == IF m.found THEN JsonLoads(m.group) ELSE [ok |-> FALSE]
        whole == JsonLoads(s)
    IN  IF block.ok
        THEN [result |-> block.value, errors |-> 0, source |-> "block"]
        ELSE IF whole.ok
        THEN [result |-> whole.value, errors |-> 0, source |-> "whole"]
        ELSE [result |-> default, errors |-> 1, source |-> "default"]

ParseExtraction ==
    /\ parse_pc = "start"
    /\ parsed' = ExtractJson(raw, EmptyMetadata_extraction).result
    /\ st_errors' = st_errors + ExtractJson(raw, EmptyMetadata_extraction).errors
    /\ parse_pc' = "extraction_functions"
    /\ UNCHANGED raw
    /\ UNCHANGED_merge /\ UNCHANGED_split /\ UNCHANGED orch

ParseKnowledge ==
    /\ parse_pc = "start"
    /\ parsed' = ExtractJson(raw, EmptyMetadata_knowledge).result
    /\ st_errors' = st_errors + ExtractJson(raw, EmptyMetadata_knowledge).errors
    /\ parse_pc' = "knowledge_utils"
    /\ UNCHANGED raw
    /\ UNCHANGED_merge /\ UNCHANGED_split /\ UNCHANGED orch

\* any raw model output
InitParse ==
    /\ raw \in SeqsUpTo(Tokens, MaxTok)
    /\ parsed = EmptyDict
    /\ parse_pc = "start"
    /\ st_errors = 0
    /\ IdleMerge /\ IdleSplit /\ IdleOrch
NextParse == ParseExtraction \/ ParseKnowledge
SpecParse == InitParse /\ [][NextParse]_vars

(* Claims about the parser, checked under SpecParse *)

\* the keys every consumer of the metadata reads, per version
RequiredKeys(version) ==
    IF version = "extraction_functions"
    THEN DOMAIN EmptyMetadata_extraction.value
    ELSE DOMAIN EmptyMetadata_knowledge.value

\* C2 (as claimed): whatever the raw text, the parser returns a Metadata
\* record (a dict) in which every required key is present.
C2_AlwaysMetadata ==
    parse_pc # "start" =>
        /\ parsed.type = "dict"
        /\ RequiredKeys(parse_pc) \subseteq DOMAIN parsed.value

----------------------------------------------------------------------------
(* Summarization orchestrator: call_openai_for_metadata (knowledge_utils.py) *)
(* and call_openai_for_enhanced_metadata (extraction_functions.py)           *)

\* chunk_size and overlap that call_openai_for_metadata passes to the chunker
CHUNK_SIZE_KU == 3000
OVERLAP_KU == 200

\* "\n"
Newline == "\n"

\* "\n".join(parts)
RECURSIVE Join(_)
Join(parts) ==
    IF parts = <<>> THEN <<>>
    ELSE IF Len(parts) = 1 THEN parts[1]
    ELSE parts[1] \o <<Newline>> \o Join(Tail(parts))

\* "\n".join(reversed(parts))
RECURSIVE JoinReversed(_)
JoinReversed(parts) ==
    IF parts = <<>> THEN <<>>
    ELSE IF Len(parts) = 1 THEN parts[1]
    ELSE JoinReversed(Tail(parts)) \o <<Newline>> \o parts[1]

\* the mutant of CombinedText that joins the summaries last to first
CombinedTextReversed(parts) == JoinReversed(parts)

\* combined_text = "\n".join(partial_summaries)
CombinedText(parts) == Join(parts)

\* the chunker each orchestrator calls
SplitOf(impl, s, size, ov) ==
    IF impl = "extraction_functions"
    THEN Split_extraction(s, size, ov)
    ELSE Split_knowledge(s, size, ov)

\* the parser's default of each version
EmptyMetadataOf(impl) ==
    IF impl = "extraction_functions"
    THEN EmptyMetadata_extraction
    ELSE EmptyMetadata_knowledge

\* the mutant of ExtractionFailure that returns None, as app.py does
ExtractionFailureNone(impl, kind) == [type |-> "NoneType", value |-> EmptyDict]

\* what the except branch of an extraction call returns:
\* _empty_metadata() in extraction_functions.py, a literal in knowledge_utils.py
ExtractionFailure(impl, kind) ==
    IF impl = "extraction_functions"
    THEN PyDict(EnhancedMetadata("", <<>>, <<>>, <<>>, <<>>))
    ELSE PyDict([summary |-> <<>>, keywords |-> <<>>, entities |-> EmptyDict])

\* the mutant of PartialOutcome that lets a service error escape
PartialOutcomePropagating(response) ==
    IF response.ok
    THEN [raised |-> FALSE, value |-> Strip(response.content), errors |-> 0]
    ELSE [raised |-> TRUE, value |-> <<>>, errors |-> 0]

\* the try/except of _call_openai_partial_summary: the stripped answer, or ""
PartialOutcome(response) ==
    IF response.ok
    THEN [raised |-> FALSE, value |-> Strip(response.content), errors |-> 0]
    ELSE [raised |-> FALSE, value |-> <<>>, errors |-> 1]

\* the try/except of _call_openai_single_chunk and _call_openai_final_metadata
ExtractionOutcome(impl, kind, response) ==
    IF response.ok
    THEN LET p == ExtractJson(Strip(response.content), EmptyMetadataOf(impl))
         IN  [raised |-> FALSE, value |-> p.result, errors |-> p.errors]
    ELSE [raised |-> FALSE, value |-> ExtractionFailure(impl, kind), errors |-> 1]

\* the text of length n: a, b, a, b, ...
TextOfLen(n) == [i \in 1..n |-> IF i % 2 = 1 THEN "a" ELSE "b"]

\* text lengths around the chunk boundaries of call_openai_for_metadata
BoundaryLens ==
    {0, 1, CHUNK_SIZE_KU - OVERLAP_KU, CHUNK_SIZE_KU - OVERLAP_KU + 1,
     CHUNK_SIZE_KU, CHUNK_SIZE_KU + 1}

\* what the service may answer to a partial-summary request
SummaryContents == {<<"s">>, <<Blank, "t">>}

\* what the service may answer to an extraction request
ExtractionContents ==
    {<<LBrace, Member, RBrace>>,
     <<FenceJson, Blank, LBrace, RBrace, Blank, Fence, Prose>>,
     <<Prose>>}

\* a service call ends with a response or with an exception
Responses(contents) ==
    {[ok |-> TRUE, content |-> c] : c \in contents} \cup {[ok |-> FALSE, content |-> <<>>]}

UNCHANGED_input == UNCHANGED <<text, chunk_size, overlap>>

\* chunks = split_text_with_overlap(text ...); if len(chunks) == 1: ... else: ...
OrchStart ==
    /\ orch.pc = "idle"
    /\ chunks' = SplitOf(orch.impl, text, chunk_size, overlap)
    /\ split_done' = orch.impl
    /\ orch' = [orch EXCEPT !.pc = IF Len(chunks') = 1 THEN "single" ELSE "map"]
    /\ UNCHANGED_input /\ UNCHANGED_merge /\ UNCHANGED_parse

\* _call_openai_single_chunk(chunks[0]) up to the blocking service call
IssueSingle ==
    /\ orch.pc = "single"
    /\ orch' = [orch EXCEPT !.pc = "await_single",
                            !.requests = Append(@, [kind |-> "single", input |-> chunks[1]])]
    /\ UNCHANGED_input /\ UNCHANGED <<chunks, split_done>>
    /\ UNCHANGED_merge /\ UNCHANGED_parse

\* the service call returns or raises; the result is returned to the caller
CompleteSingle ==
    /\ orch.pc = "await_single"
    /\ \E r \in Responses(ExtractionContents) :
          LET out == ExtractionOutcome(orch.impl, "single", r)
          IN  orch' = [orch EXCEPT !.pc = IF out.raised THEN "raised" ELSE "done",
                                   !.responses = Append(@, r),
                                   !.result = out.value,
                                   !.errors = @ + out.errors]
    /\ UNCHANGED_input /\ UNCHANGED <<chunks, split_done>>
    /\ UNCHANGED_merge /\ UNCHANGED_parse

\* the next iteration of the for loop: _call_openai_partial_summary(chunk)
\* up to the blocking service call
IssuePartial ==
    /\ orch.pc = "map"
    /\ Len(orch.partial_summaries) < Len(chunks)
    /\ orch' = [orch EXCEPT !.pc = "await_partial",
                            !.requests = Append(@,
                                [kind |-> "partial",
                                 input |-> chunks[Len(orch.partial_summaries) + 1]])]
    /\ UNCHANGED_input /\ UNCHANGED <<chunks, split_done>>
    /\ UNCHANGED_merge /\ UNCHANGED_parse

\* the service call returns or raises; partial_summaries.append(summary)
CompletePartial ==
    /\ orch.pc = "await_partial"
    /\ \E r \in Responses(SummaryContents) :
          LET out == PartialOutcome(r)
          IN  orch' = [orch EXCEPT !.pc = IF out.raised THEN "raised" ELSE "map",
                                   !.responses = Append(@, r),
                                   !.partial_summaries =
                                       IF out.raised THEN @ ELSE Append(@, out.value),
                                   !.errors = @ + out.errors]
    /\ UNCHANGED_input /\ UNCHANGED <<chunks, split_done>>
    /\ UNCHANGED_merge /\ UNCHANGED_parse

\* after the loop: combined_text, _call_openai_final_metadata(combined_text)
\* up to the blocking service call
IssueFinal ==
    /\ orch.pc = "map"
    /\ Len(orch.partial_summaries) = Len(chunks)
    /\ orch' = [orch EXCEPT !.pc = "await_final",
                            !.requests = Append(@,
                                [kind |-> "final",
                                 input |-> CombinedText(orch.partial_summaries)])]
    /\ UNCHANGED_input /\ UNCHANGED <<chunks, split_done>>
    /\ UNCHANGED_merge /\ UNCHANGED_parse

\* the service call returns or raises; the result is returned to the caller
CompleteFinal ==
    /\ orch.pc = "await_final"
    /\ \E r \in Responses(ExtractionContents) :
          LET out == ExtractionOutcome(orch.impl, "final", r)
          IN  orch' = [orch EXCEPT !.pc = IF out.raised THEN "raised" ELSE "done",
                                   !.responses = Append(@, r),
                                   !.result = out.value,
                                   !.errors = @ + out.errors]
    /\ UNCHANGED_input /\ UNCHANGED <<chunks, split_done>>
    /\ UNCHANGED_merge /\ UNCHANGED_parse

\* an orchestrator about to run: nothing requested, nothing returned
OrchIdle(impl) ==
    [impl |-> impl, pc |-> "idle", requests |-> <<>>, responses |-> <<>>,
     partial_summaries |-> <<>>, result |-> EmptyDict, errors |-> 0]

\* extraction_functions.py takes chunk_size and overlap from prompts.json: any
\* valid pair; knowledge_utils.py passes 3000 and 200
InitOrch ==
    /\ \/ /\ orch = OrchIdle("extraction_functions")
          /\ chunk_size \in 1..MaxChunk
          /\ overlap \in 0..(chunk_size - 1)
          /\ text \in {TextOfLen(n) : n \in 0..MaxLen}
       \/ /\ orch = OrchIdle("knowledge_utils")
          /\ chunk_size = CHUNK_SIZE_KU
          /\ overlap = OVERLAP_KU
          /\ text \in {TextOfLen(n) : n \in BoundaryLens}
    /\ chunks = <<>>
    /\ split_done = "none"
    /\ IdleMerge /\ IdleParse
NextOrch ==
    \/ OrchStart
    \/ IssueSingle \/ CompleteSingle
    \/ IssuePartial \/ CompletePartial
    \/ IssueFinal \/ CompleteFinal
SpecOrch == InitOrch /\ [][NextOrch]_vars

(* Claims about the orchestrator, checked under SpecOrch *)

\* the summary the i-th partial request yields: the stripped answer, or the
\* empty string when the request failed
SummaryAt(i) ==
    IF orch.responses[i].ok THEN Strip(orch.responses[i].content) ELSE <<>>

\* the summaries 1..n in chunk order, a newline between neighbours
RECURSIVE SummariesUpTo(_)
SummariesUpTo(n) ==
    IF n = 0 THEN <<>>
    ELSE IF n = 1 THEN SummaryAt(1)
    ELSE SummariesUpTo(n - 1) \o <<Newline>> \o SummaryAt(n)

\* C4: with k chunks, k = 1 gives exactly one request, a structured
\* extraction of the whole chunk; k > 1 gives k partial-summary requests, the
\* p-th for chunk p, one at a time, and then one final-extraction request,
\* issued after all k answers, over the k summaries joined by newlines.
C4_RequestOrder ==
    split_done # "none" =>
        LET k == Len(chunks)
            R == orch.requests
        IN  /\ Len(R) - Len(orch.responses) \in {0, 1}
            /\ \A p \in DOMAIN R :
                  /\ R[p].kind = "single" => (k = 1 /\ p = 1 /\ R[p].input = chunks[1])
                  /\ R[p].kind = "partial" =>
                        /\ k > 1 /\ p <= k
                        /\ R[p].input = chunks[p]
                        /\ Len(orch.responses) >= p - 1
                  /\ R[p].kind = "final" =>
                        /\ k # 1 /\ p = k + 1
                        /\ Len(orch.responses) >= k
                        /\ R[p].input = SummariesUpTo(k)
            /\ (orch.pc = "done" /\ k = 1) => (Len(R) = 1 /\ R[1].kind = "single")
            /\ (orch.pc = "done" /\ k > 1) =>
                  /\ Len(R) = k + 1
                  /\ \A p \in 1..k : R[p].kind = "partial"
                  /\ R[k + 1].kind = "final"

\* C4 witness: a finished map-reduce run over three or more chunks whose
\* first two summaries differ.
C4_Witness ==
    /\ orch.pc = "done"
    /\ Len(chunks) >= 3
    /\ orch.responses[1].ok /\ orch.responses[2].ok
    /\ SummaryAt(1) # SummaryAt(2)
    /\ chunks[1] # chunks[2]

\* what the parser returns when both parse attempts fail
ParseFailureValue(impl) == ExtractJson(<<Prose>>, EmptyMetadataOf(impl)).result

\* C5: no service failure leaves the orchestrator; a failed partial request
\* puts the empty string at its chunk's position and the run goes on to the
\* remaining partial requests and the final request; a failed single-chunk or
\* final request makes the result the parser's parse-failure Metadata.
C5_FailuresAbsorbed ==
    /\ orch.pc # "raised"
    /\ \A i \in DOMAIN orch.partial_summaries :
          ~orch.responses[i].ok => orch.partial_summaries[i] = <<>>
    /\ (orch.pc = "done" /\ Len(chunks) # 1) =>
          /\ Len(orch.partial_summaries) = Len(chunks)
          /\ Len(orch.requests) = Len(chunks) + 1
    /\ (orch.pc = "done" /\ ~orch.responses[Len(orch.responses)].ok) =>
          orch.result = ParseFailureValue(orch.impl)

\* C5 witness: a finished run in which the first partial request failed, a
\* later one succeeded, and the final request failed.
C5_Witness ==
    /\ orch.pc = "done"
    /\ Len(chunks) >= 2
    /\ ~orch.responses[1].ok
    /\ orch.responses[2].ok
    /\ ~orch.responses[Len(orch.responses)].ok
    /\ orch.errors >= 2

\* C5 witness for the single-chunk path: the only request failed.
C5_WitnessSingle ==
    /\ orch.pc = "done"
    /\ Len(chunks) = 1
    /\ ~orch.responses[1].ok

\* C7 (as claimed): a text no longer than chunk_size takes the single-chunk
\* path: one request, no partial-summary and no final-extraction request.
C7_ShortTextSinglePath ==
    LET R == orch.requests
    IN  /\ (\E p \in DOMAIN R : R[p].kind \in {"partial", "final"})
              => Len(text) > chunk_size
        /\ (orch.pc = "done" /\ Len(text) <= chunk_size)
              => (Len(R) = 1 /\ R[1].kind = "single")

----------------------------------------------------------------------------
(* Claims about the order of the parser's sources, checked under SpecParse *)

\* the fenced blocks a reader finds in s: <<o, c>> where s[o] opens a json
\* fence and s[c] is the first three backquotes after it
FencedBlocks(s) ==
    {<<o, FenceClose(s, o)>> :
        o \in {i \in DOMAIN s : s[i] = FenceJson /\ FenceClose(s, i) # 0}}

\* the content of block b of s, surrounding whitespace removed
BlockContent(s, b) == Strip(SubSeq(s, b[1] + 1, b[2] - 1))

\* the fenced blocks of s whose content parses as JSON
ParsingBlocks(s) == {b \in FencedBlocks(s) : JsonLoads(BlockContent(s, b)).ok}

\* the leftmost fenced block of s, as a set: empty when s has no fenced block
FirstBlocks(s) ==
    {b \in FencedBlocks(s) : \A b2 \in FencedBlocks(s) : b[1] <= b2[1]}

\* the parse of the block chosen from the set blocks, the parse of the whole
\* text otherwise, the default with one reported failure exactly when neither
\* parses
SourceOrder(blocks) ==
    parse_pc # "start" =>
        LET whole == JsonLoads(raw)
            default == EmptyMetadataOf(parse_pc)
        IN  /\ blocks # {} =>
                 /\ \E b \in blocks : parsed = JsonLoads(BlockContent(raw, b)).value
                 /\ st_errors = 0
            /\ (blocks = {} /\ whole.ok) =>
                 /\ parsed = whole.value
                 /\ st_errors = 0
            /\ (blocks = {} /\ ~whole.ok) =>
                 /\ parsed = default
                 /\ st_errors = 1
            /\ (parsed = default /\ st_errors = 1) => (blocks = {} /\ ~whole.ok)

\* C12 (as claimed): if the text contains a json fenced block whose content
\* parses, the result is that block's parsed content, whatever surrounds it;
\* otherwise the result is the parse of the entire text when that parses; the
\* default is returned and a failure reported exactly when both fail.
C12_AnyParsingBlock == SourceOrder(ParsingBlocks(raw))

\* C12 (amended): the same order of sources, where the fenced block is the
\* first one in the text: a later block is never tried, even when the first
\* one does not parse and the later one does.
C12_SourceOrder == SourceOrder(ParsingBlocks(raw) \cap FirstBlocks(raw))

\* C12 witness: a fenced block that parses, with prose before or after it,
\* was returned as the result.
C12_Witness ==
    /\ parse_pc # "start"
    /\ Prose \in Range(raw)
    /\ ParsingBlocks(raw) \cap FirstBlocks(raw) # {}
    /\ parsed = PyDict(EmptyDict)
    /\ st_errors = 0

\* C12 witness: the first fenced block did not parse and the entire text did,
\* so the entire text's parse was returned.
C12_WitnessWhole ==
    /\ parse_pc # "start"
    /\ FirstBlocks(raw) # {}
    /\ ParsingBlocks(raw) = {}
    /\ JsonLoads(raw).ok
    /\ parsed = JsonLoads(raw).value
    /\ st_errors = 0

\* C12 witness: a later fenced block parses, the first one does not, and the
\* default came back with a reported failure.
C12_WitnessLaterBlock ==
    /\ parse_pc # "start"
    /\ ParsingBlocks(raw) # {}
    /\ ParsingBlocks(raw) \cap FirstBlocks(raw) = {}
    /\ parsed = EmptyMetadataOf(parse_pc)
    /\ st_errors = 1

====
